---- MODULE Spec2Model ----
(***************************************************************************)
(* Model of python_bridge/chatboxAgenticBridge.py: a relay between a       *)
(* dashboard websocket endpoint and an agent websocket endpoint through    *)
(* one global mailbox (message) and two asyncio events (event, event2).    *)
(*                                                                         *)
(* Handlers are asyncio coroutines on one event loop: the code between two *)
(* suspension points runs without interleaving.  The variable running      *)
(* names the handler that holds the loop; a handler position is named by   *)
(* the source line it is about to execute ("L17"), with the suffix w for   *)
(* "suspended in that await" and r for "future resolved, ready to resume". *)
(* asyncio.Event: set() raises the flag and resolves the future of every   *)
(* waiter; wait() returns at once when the flag is up, else suspends until *)
(* its future is resolved (and does not look at the flag again); clear()   *)
(* lowers the flag.  A websocket handler is not cancelled when its         *)
(* connection closes: its next send or recv raises ConnectionClosed.       *)
(* A send hands its payload to the transport at its call; it then either   *)
(* returns at once, and the handler is next seen suspended in the recv     *)
(* that follows, or suspends until the transport has taken the payload     *)
(* (suffix w on the line of the send).  A step of the peers (a payload     *)
(* arriving, a connection opening or closing) is taken by the event loop,  *)
(* hence only while no handler is running.                                 *)
(***************************************************************************)
EXTENDS Integers, Sequences, FiniteSets, TLC

\* ------------------------------------------------------------------ bounds
MaxDash == 2

MaxAgent == 2

MaxReq == 2

MaxPairReq == 3

\* --------------------------------------------------------------- constants
Sentinel == "exit"

InitialMessage == "global"

\* Payloads the peers send.  With one connection per endpoint the dashboard
\* chooses among two requests and the sentinel, the agent among two replies and
\* the sentinel.  With several sessions the first dashboard sends p1, the later
\* ones p2 (or the sentinel), and the agents reply r1.
PairDashInputs == {"p1", "p2", Sentinel}

PairAgentInputs == {"r1", "r2", Sentinel}

DashInputs(d) == {IF d = 1 THEN "p1" ELSE "p2", Sentinel}

AgentInputs == {"r1"}

Payloads == PairDashInputs \cup PairAgentInputs

Dashes == 1..MaxDash

Agents == 1..MaxAgent

NoOne == <<"none", 0>>

D(d) == <<"dash", d>>

A(a) == <<"agent", a>>

VARIABLES
  message,   \* the global mailbox (line 6)
  event,     \* flag of event, the Turn Signal (line 7)
  event2,    \* flag of event2, the Reply Signal (line 8)
  dpc,       \* position of each dashboardHandler instance
  apc,       \* position of each agenticHandler instance
  dOpen,     \* dashboard connection d is open
  aOpen,     \* agent connection a is open
  running,   \* the handler that holds the event loop, or NoOne
  wire,      \* history: the transport operation of the last step, if any
  cnt,       \* history: number of requests received (sentinel excluded), of
             \* sends to an agent, of replies received, of sends to a dashboard
  req,       \* history: the last payload received from a dashboard
  rep,       \* history: the last payload received from an agent
  sig,       \* history: the last operation on either signal
  dOps,      \* history: the last transport operation on each dashboard
             \* connection ("exit": a recv of the sentinel)
  aOps,      \* history: the last transport operation on each agent connection
  first      \* history: the first payload of a dashboard session, until the
             \* next send to an agent

vars == <<message, event, event2, dpc, apc, dOpen, aOpen, running, wire, cnt,
          req, rep, sig, dOps, aOps, first>>

\* ------------------------------------------------------------ pure helpers
\* line 31: the loop condition of dashboardHandler, on the global mailbox
\* (LoopAlways: the condition without its test of the sentinel)
LoopAlways(m) == TRUE

LoopCond(m) == m # Sentinel

\* asyncio.Event.wait(): returns without suspending iff the flag is up
\* (WaitAlwaysSuspends: a wait that misses a set made before it)
WaitAlwaysSuspends(flag) == FALSE

WaitReturnsAtOnce(flag) == flag

\* asyncio.Event.set() and asyncio.Event.clear(): the flag they leave
\* (ClearForgotten: lines 17 and 36 left out)
EventSet(flag) == TRUE

ClearForgotten(flag) == flag

EventClear(flag) == FALSE

\* asyncio.Event.set() resolves the future of every suspended waiter
\* (WakeNobody: a set that raises the flag only)
WakeNobody(pc, waiting, ready) == pc

WakeWaiters(pc, waiting, ready) ==
  [h \in DOMAIN pc |-> IF pc[h] = waiting THEN ready ELSE pc[h]]

\* line 18: the argument of websocket.send in agenticHandler
AgentSendArg(m) == m

\* line 37: the argument of websocket.send in dashboardHandler
DashSendArg(m) == m

Op(ep, id, op, val) == [ep |-> ep, id |-> id, op |-> op, val |-> val]

NoPayload == "-"

NoOp == Op("none", 0, "none", NoPayload)

Count(c, kind) == [c EXCEPT ![kind] = @ + 1]

\* ------------------------------------------------------------------- Init
Init ==
  /\ message = InitialMessage
  /\ event = FALSE
  /\ event2 = FALSE
  /\ dpc = [d \in Dashes |-> "idle"]
  /\ apc = [a \in Agents |-> "idle"]
  /\ dOpen = [d \in Dashes |-> FALSE]
  /\ aOpen = [a \in Agents |-> FALSE]
  /\ running = NoOne
  /\ wire = NoOp
  /\ cnt = [dashReq |-> 0, agentSend |-> 0, agentRecv |-> 0, dashSend |-> 0]
  /\ req = NoPayload
  /\ rep = NoPayload
  /\ sig = "none"
  /\ dOps = [d \in Dashes |-> "none"]
  /\ aOps = [a \in Agents |-> "none"]
  /\ first = NoPayload

\* ------------------------------------------------- listener (lines 43-46)
\* A connection is accepted on an endpoint only when the previous connection
\* on that endpoint is closed (sessions on one endpoint do not overlap).
DashAccept(d) ==
  /\ running = NoOne
  /\ dpc[d] = "idle"
  /\ \A e \in Dashes : e < d => (dpc[e] # "idle" /\ ~dOpen[e])
  /\ dOpen' = [dOpen EXCEPT ![d] = TRUE]
  /\ dpc' = [dpc EXCEPT ![d] = "L30w"]
  /\ wire' = NoOp
  /\ UNCHANGED <<message, event, event2, apc, aOpen, running, sig, cnt, req,
                 rep, dOps, aOps, first>>

\* (AgentAcceptClearing: a handler that starts by clearing the Turn Signal)
AgentAcceptClearing(a) ==
  /\ running = NoOne
  /\ apc[a] = "idle"
  /\ \A b \in Agents : b < a => (apc[b] # "idle" /\ ~aOpen[b])
  /\ aOpen' = [aOpen EXCEPT ![a] = TRUE]
  /\ apc' = [apc EXCEPT ![a] = "L15"]
  /\ running' = A(a)
  /\ event' = EventClear(event)
  /\ wire' = NoOp
  /\ UNCHANGED <<message, event2, dpc, dOpen, sig, cnt, req, rep, dOps, aOps,
                 first>>

AgentAccept(a) ==
  /\ running = NoOne
  /\ apc[a] = "idle"
  /\ \A b \in Agents : b < a => (apc[b] # "idle" /\ ~aOpen[b])
  /\ aOpen' = [aOpen EXCEPT ![a] = TRUE]
  /\ apc' = [apc EXCEPT ![a] = "L15"]
  /\ running' = A(a)
  /\ wire' = NoOp
  /\ UNCHANGED <<message, event, event2, dpc, dOpen, sig, cnt, req, rep, dOps,
                 aOps, first>>

\* the peer disconnects or the connection errors
DashClose(d) ==
  /\ running = NoOne
  /\ dOpen[d]
  /\ dOpen' = [dOpen EXCEPT ![d] = FALSE]
  /\ wire' = NoOp
  /\ UNCHANGED <<message, event, event2, dpc, apc, aOpen, running, sig, cnt,
                 req, rep, dOps, aOps, first>>

AgentClose(a) ==
  /\ running = NoOne
  /\ aOpen[a]
  /\ aOpen' = [aOpen EXCEPT ![a] = FALSE]
  /\ wire' = NoOp
  /\ UNCHANGED <<message, event, event2, dpc, apc, dOpen, running, sig, cnt,
                 req, rep, dOps, aOps, first>>

\* ------------------------------------------- agenticHandler (lines 10-24)
\* line 15, flag up: wait() returns without suspending
AgentWaitPass(a) ==
  /\ running = A(a)
  /\ apc[a] = "L15"
  /\ WaitReturnsAtOnce(event)
  /\ apc' = [apc EXCEPT ![a] = "L17"]
  /\ wire' = NoOp
  /\ UNCHANGED <<message, event, event2, dpc, dOpen, aOpen, running, sig, cnt,
                 req, rep, dOps, aOps, first>>

\* line 15, flag down: the handler suspends on the event's future
AgentWaitSuspend(a) ==
  /\ running = A(a)
  /\ apc[a] = "L15"
  /\ ~WaitReturnsAtOnce(event)
  /\ apc' = [apc EXCEPT ![a] = "L15w"]
  /\ running' = NoOne
  /\ wire' = NoOp
  /\ UNCHANGED <<message, event, event2, dpc, dOpen, aOpen, sig, cnt, req,
                 rep, dOps, aOps, first>>

\* line 15: the loop resumes a handler whose future was resolved
AgentWake(a) ==
  /\ running = NoOne
  /\ apc[a] = "L15r"
  /\ apc' = [apc EXCEPT ![a] = "L17"]
  /\ running' = A(a)
  /\ wire' = NoOp
  /\ UNCHANGED <<message, event, event2, dpc, dOpen, aOpen, sig, cnt, req,
                 rep, dOps, aOps, first>>

\* line 17: event.clear()
AgentClear(a) ==
  /\ running = A(a)
  /\ apc[a] = "L17"
  /\ event' = EventClear(event)
  /\ sig' = "clearTurn"
  /\ apc' = [apc EXCEPT ![a] = "L18"]
  /\ wire' = NoOp
  /\ UNCHANGED <<message, event2, dpc, dOpen, aOpen, running, cnt, req, rep,
                 dOps, aOps, first>>

\* line 18 on an open connection: send(message); the handler then suspends in
\* recv at line 20
AgentSend(a) ==
  /\ running = A(a)
  /\ apc[a] = "L18"
  /\ aOpen[a]
  /\ wire' = Op("agent", a, "send", AgentSendArg(message))
  /\ cnt' = Count(cnt, "agentSend")
  /\ apc' = [apc EXCEPT ![a] = "L20w"]
  /\ running' = NoOne
  /\ aOps' = [aOps EXCEPT ![a] = "send"]
  /\ first' = NoPayload
  /\ UNCHANGED <<message, event, event2, dpc, dOpen, aOpen, req, rep, sig,
                 dOps>>

\* line 18 on an open connection, send suspends: the payload is handed to the
\* transport and the handler returns to the event loop inside line 18
AgentSendSuspend(a) ==
  /\ running = A(a)
  /\ apc[a] = "L18"
  /\ aOpen[a]
  /\ wire' = Op("agent", a, "send", AgentSendArg(message))
  /\ cnt' = Count(cnt, "agentSend")
  /\ apc' = [apc EXCEPT ![a] = "L18w"]
  /\ running' = NoOne
  /\ aOps' = [aOps EXCEPT ![a] = "send"]
  /\ first' = NoPayload
  /\ UNCHANGED <<message, event, event2, dpc, dOpen, aOpen, req, rep, sig,
                 dOps>>

\* line 18, the suspended send completes: the handler runs on to line 20 and
\* suspends in recv
AgentSendDone(a) ==
  /\ running = NoOne
  /\ apc[a] = "L18w"
  /\ aOpen[a]
  /\ apc' = [apc EXCEPT ![a] = "L20w"]
  /\ wire' = NoOp
  /\ UNCHANGED <<message, event, event2, dpc, dOpen, aOpen, running, sig, cnt,
                 req, rep, dOps, aOps, first>>

\* line 18, the connection has closed under the suspended send: send raises
\* ConnectionClosed, the handler ends through line 23
AgentSendAbort(a) ==
  /\ running = NoOne
  /\ apc[a] = "L18w"
  /\ ~aOpen[a]
  /\ apc' = [apc EXCEPT ![a] = "done"]
  /\ wire' = NoOp
  /\ UNCHANGED <<message, event, event2, dpc, dOpen, aOpen, running, sig, cnt,
                 req, rep, dOps, aOps, first>>

\* line 18 on a closed connection: send raises ConnectionClosed, the handler
\* ends through line 23
AgentSendClosed(a) ==
  /\ running = A(a)
  /\ apc[a] = "L18"
  /\ ~aOpen[a]
  /\ apc' = [apc EXCEPT ![a] = "done"]
  /\ running' = NoOne
  /\ wire' = NoOp
  /\ UNCHANGED <<message, event, event2, dpc, dOpen, aOpen, sig, cnt, req,
                 rep, dOps, aOps, first>>

\* line 20: the agent's reply r arrives, recv returns it and it is assigned to
\* the mailbox
AgentRecv(a, r) ==
  /\ running = NoOne
  /\ apc[a] = "L20w"
  /\ aOpen[a]
  /\ message' = r
  /\ wire' = Op("agent", a, "recv", r)
  /\ cnt' = Count(cnt, "agentRecv")
  /\ rep' = r
  /\ apc' = [apc EXCEPT ![a] = "L22"]
  /\ running' = A(a)
  /\ aOps' = [aOps EXCEPT ![a] = "recv"]
  /\ UNCHANGED <<event, event2, dpc, dOpen, aOpen, req, sig, dOps, first>>

\* line 20 on a closed connection: recv raises ConnectionClosed
AgentRecvClosed(a) ==
  /\ running = NoOne
  /\ apc[a] = "L20w"
  /\ ~aOpen[a]
  /\ apc' = [apc EXCEPT ![a] = "done"]
  /\ wire' = NoOp
  /\ UNCHANGED <<message, event, event2, dpc, dOpen, aOpen, running, sig, cnt,
                 req, rep, dOps, aOps, first>>

\* line 22: event2.set()
AgentSetReply(a) ==
  /\ running = A(a)
  /\ apc[a] = "L22"
  /\ event2' = EventSet(event2)
  /\ sig' = "setReply"
  /\ dpc' = IF event2 THEN dpc ELSE WakeWaiters(dpc, "L34w", "L34r")
  /\ apc' = [apc EXCEPT ![a] = "L15"]
  /\ wire' = NoOp
  /\ UNCHANGED <<message, event, dOpen, aOpen, running, cnt, req, rep, dOps,
                 aOps, first>>

\* ----------------------------------------- dashboardHandler (lines 26-41)
\* lines 30 and 39: a payload p arrives from the dashboard, recv returns it and
\* it is assigned to the mailbox
DashRecv(d, p) ==
  /\ running = NoOne
  /\ dpc[d] \in {"L30w", "L39w"}
  /\ dOpen[d]
  /\ message' = p
  /\ wire' = Op("dash", d, "recv", p)
  /\ cnt' = IF p # Sentinel THEN Count(cnt, "dashReq") ELSE cnt
  /\ req' = p
  /\ dpc' = [dpc EXCEPT ![d] = "L31"]
  /\ running' = D(d)
  /\ dOps' = [dOps EXCEPT ![d] = IF p = Sentinel THEN "exit" ELSE "recv"]
  /\ first' = IF dpc[d] = "L30w" /\ p # Sentinel THEN p ELSE first
  /\ UNCHANGED <<event, event2, apc, dOpen, aOpen, rep, sig, aOps>>

\* lines 30 and 39 on a closed connection: recv raises ConnectionClosed
DashRecvClosed(d) ==
  /\ running = NoOne
  /\ dpc[d] \in {"L30w", "L39w"}
  /\ ~dOpen[d]
  /\ dpc' = [dpc EXCEPT ![d] = "done"]
  /\ wire' = NoOp
  /\ UNCHANGED <<message, event, event2, apc, dOpen, aOpen, running, sig, cnt,
                 req, rep, dOps, aOps, first>>

\* line 31, condition true: enter the loop body
DashLoop(d) ==
  /\ running = D(d)
  /\ dpc[d] = "L31"
  /\ LoopCond(message)
  /\ dpc' = [dpc EXCEPT ![d] = "L33"]
  /\ wire' = NoOp
  /\ UNCHANGED <<message, event, event2, apc, dOpen, aOpen, running, sig, cnt,
                 req, rep, dOps, aOps, first>>

\* line 31, condition false: the handler returns and the server closes the
\* connection; lines 40-41 only print
\* (DashExitReset: a handler that resets the mailbox when it returns;
\* DashExitSignalling: a handler that sets the Turn Signal when it returns)
DashExitSignalling(d) ==
  /\ running = D(d)
  /\ dpc[d] = "L31"
  /\ ~LoopCond(message)
  /\ event' = EventSet(event)
  /\ dpc' = [dpc EXCEPT ![d] = "done"]
  /\ dOpen' = [dOpen EXCEPT ![d] = FALSE]
  /\ running' = NoOne
  /\ wire' = NoOp
  /\ UNCHANGED <<message, event2, apc, aOpen, sig, cnt, req, rep, dOps, aOps,
                 first>>

DashExitReset(d) ==
  /\ running = D(d)
  /\ dpc[d] = "L31"
  /\ ~LoopCond(message)
  /\ message' = InitialMessage
  /\ dpc' = [dpc EXCEPT ![d] = "done"]
  /\ dOpen' = [dOpen EXCEPT ![d] = FALSE]
  /\ running' = NoOne
  /\ wire' = NoOp
  /\ UNCHANGED <<event, event2, apc, aOpen, sig, cnt, req, rep, dOps, aOps,
                 first>>

DashExit(d) ==
  /\ running = D(d)
  /\ dpc[d] = "L31"
  /\ ~LoopCond(message)
  /\ dpc' = [dpc EXCEPT ![d] = "done"]
  /\ dOpen' = [dOpen EXCEPT ![d] = FALSE]
  /\ running' = NoOne
  /\ wire' = NoOp
  /\ UNCHANGED <<message, event, event2, apc, aOpen, sig, cnt, req, rep, dOps,
                 aOps, first>>

\* line 33: event.set()
DashSetTurn(d) ==
  /\ running = D(d)
  /\ dpc[d] = "L33"
  /\ event' = EventSet(event)
  /\ sig' = "setTurn"
  /\ apc' = IF event THEN apc ELSE WakeWaiters(apc, "L15w", "L15r")
  /\ dpc' = [dpc EXCEPT ![d] = "L34"]
  /\ wire' = NoOp
  /\ UNCHANGED <<message, event2, dOpen, aOpen, running, cnt, req, rep, dOps,
                 aOps, first>>

\* line 34, flag up: wait() returns without suspending
DashWaitPass(d) ==
  /\ running = D(d)
  /\ dpc[d] = "L34"
  /\ WaitReturnsAtOnce(event2)
  /\ dpc' = [dpc EXCEPT ![d] = "L36"]
  /\ wire' = NoOp
  /\ UNCHANGED <<message, event, event2, apc, dOpen, aOpen, running, sig, cnt,
                 req, rep, dOps, aOps, first>>

\* line 34, flag down: the handler suspends on the event's future
DashWaitSuspend(d) ==
  /\ running = D(d)
  /\ dpc[d] = "L34"
  /\ ~WaitReturnsAtOnce(event2)
  /\ dpc' = [dpc EXCEPT ![d] = "L34w"]
  /\ running' = NoOne
  /\ wire' = NoOp
  /\ UNCHANGED <<message, event, event2, apc, dOpen, aOpen, sig, cnt, req,
                 rep, dOps, aOps, first>>

\* line 34: the loop resumes a handler whose future was resolved
DashWake(d) ==
  /\ running = NoOne
  /\ dpc[d] = "L34r"
  /\ dpc' = [dpc EXCEPT ![d] = "L36"]
  /\ running' = D(d)
  /\ wire' = NoOp
  /\ UNCHANGED <<message, event, event2, apc, dOpen, aOpen, sig, cnt, req,
                 rep, dOps, aOps, first>>

\* line 36: event2.clear()
DashClear(d) ==
  /\ running = D(d)
  /\ dpc[d] = "L36"
  /\ event2' = EventClear(event2)
  /\ sig' = "clearReply"
  /\ dpc' = [dpc EXCEPT ![d] = "L37"]
  /\ wire' = NoOp
  /\ UNCHANGED <<message, event, apc, dOpen, aOpen, running, cnt, req, rep,
                 dOps, aOps, first>>

\* line 37 on an open connection: send(message); the handler then suspends in
\* recv at line 39
\* (DashSendThenTest: a handler that tests the loop condition on the payload
\* it has just relayed and returns when it is the sentinel)
DashSendThenTest(d) ==
  /\ running = D(d)
  /\ dpc[d] = "L37"
  /\ dOpen[d]
  /\ wire' = Op("dash", d, "send", DashSendArg(message))
  /\ cnt' = Count(cnt, "dashSend")
  /\ dpc' = [dpc EXCEPT ![d] = IF LoopCond(message) THEN "L39w" ELSE "done"]
  /\ dOpen' = [dOpen EXCEPT ![d] = LoopCond(message)]
  /\ running' = NoOne
  /\ dOps' = [dOps EXCEPT ![d] = "send"]
  /\ UNCHANGED <<message, event, event2, apc, aOpen, req, rep, sig, aOps,
                 first>>

DashSend(d) ==
  /\ running = D(d)
  /\ dpc[d] = "L37"
  /\ dOpen[d]
  /\ wire' = Op("dash", d, "send", DashSendArg(message))
  /\ cnt' = Count(cnt, "dashSend")
  /\ dpc' = [dpc EXCEPT ![d] = "L39w"]
  /\ running' = NoOne
  /\ dOps' = [dOps EXCEPT ![d] = "send"]
  /\ UNCHANGED <<message, event, event2, apc, dOpen, aOpen, req, rep, sig,
                 aOps, first>>

\* line 37 on an open connection, send suspends: the payload is handed to the
\* transport and the handler returns to the event loop inside line 37
DashSendSuspend(d) ==
  /\ running = D(d)
  /\ dpc[d] = "L37"
  /\ dOpen[d]
  /\ wire' = Op("dash", d, "send", DashSendArg(message))
  /\ cnt' = Count(cnt, "dashSend")
  /\ dpc' = [dpc EXCEPT ![d] = "L37w"]
  /\ running' = NoOne
  /\ dOps' = [dOps EXCEPT ![d] = "send"]
  /\ UNCHANGED <<message, event, event2, apc, dOpen, aOpen, req, rep, sig,
                 aOps, first>>

\* line 37, the suspended send completes: the handler runs on to line 39 and
\* suspends in recv
DashSendDone(d) ==
  /\ running = NoOne
  /\ dpc[d] = "L37w"
  /\ dOpen[d]
  /\ dpc' = [dpc EXCEPT ![d] = "L39w"]
  /\ wire' = NoOp
  /\ UNCHANGED <<message, event, event2, apc, dOpen, aOpen, running, sig, cnt,
                 req, rep, dOps, aOps, first>>

\* line 37, the connection has closed under the suspended send: send raises
\* ConnectionClosed, the handler ends through line 40
DashSendAbort(d) ==
  /\ running = NoOne
  /\ dpc[d] = "L37w"
  /\ ~dOpen[d]
  /\ dpc' = [dpc EXCEPT ![d] = "done"]
  /\ wire' = NoOp
  /\ UNCHANGED <<message, event, event2, apc, dOpen, aOpen, running, sig, cnt,
                 req, rep, dOps, aOps, first>>

\* line 37 on a closed connection: send raises ConnectionClosed
DashSendClosed(d) ==
  /\ running = D(d)
  /\ dpc[d] = "L37"
  /\ ~dOpen[d]
  /\ dpc' = [dpc EXCEPT ![d] = "done"]
  /\ running' = NoOne
  /\ wire' = NoOp
  /\ UNCHANGED <<message, event, event2, apc, dOpen, aOpen, sig, cnt, req,
                 rep, dOps, aOps, first>>

\* --------------------------------------------------------- specifications
AgentStep(a) ==
  \/ AgentWaitPass(a)
  \/ AgentWaitSuspend(a)
  \/ AgentWake(a)
  \/ AgentClear(a)
  \/ AgentSend(a)
  \/ AgentSendSuspend(a)
  \/ AgentSendDone(a)
  \/ AgentSetReply(a)

DashStep(d) ==
  \/ DashLoop(d)
  \/ DashExit(d)
  \/ DashSetTurn(d)
  \/ DashWaitSuspend(d)
  \/ DashWake(d)
  \/ DashClear(d)
  \/ DashSend(d)
  \/ DashSendSuspend(d)
  \/ DashSendDone(d)

\* the model receives at most max requests (the sentinel not counted)
MayReceive(p, max) == p # Sentinel => cnt.dashReq < max

\* Sessions on each endpoint follow one another; connections may close at any
\* time.
Next ==
  \/ \E d \in Dashes :
       DashAccept(d) \/ DashClose(d) \/ DashStep(d) \/ DashWaitPass(d)
         \/ DashRecvClosed(d) \/ DashSendClosed(d) \/ DashSendAbort(d)
  \/ \E d \in Dashes : \E p \in DashInputs(d) :
       MayReceive(p, MaxReq) /\ DashRecv(d, p)
  \/ \E a \in Agents :
       AgentAccept(a) \/ AgentClose(a) \/ AgentStep(a)
         \/ AgentRecvClosed(a) \/ AgentSendClosed(a) \/ AgentSendAbort(a)
  \/ \E a \in Agents : \E r \in AgentInputs : AgentRecv(a, r)

Spec == Init /\ [][Next]_vars

\* One dashboard connection and one agent connection, both staying open.  The
\* steps left out are those of a closed connection and DashWaitPass, which
\* needs a Reply Signal set before the handler reaches line 34 and is never
\* enabled here (PairWaitSuspends).
NextPair ==
  \/ DashAccept(1)
  \/ DashStep(1)
  \/ \E p \in PairDashInputs : MayReceive(p, MaxPairReq) /\ DashRecv(1, p)
  \/ AgentAccept(1)
  \/ AgentStep(1)
  \/ \E r \in PairAgentInputs : AgentRecv(1, r)

SpecPair == Init /\ [][NextPair]_vars

\* One dashboard connection, which may close, and agent connections that
\* follow one another and may close at any time.  DashWaitPass is left out for
\* the same reason as in NextPair.
NextOneDash ==
  \/ DashAccept(1) \/ DashClose(1) \/ DashStep(1)
  \/ DashRecvClosed(1) \/ DashSendClosed(1) \/ DashSendAbort(1)
  \/ \E p \in PairDashInputs : MayReceive(p, MaxReq) /\ DashRecv(1, p)
  \/ \E a \in Agents :
       AgentAccept(a) \/ AgentClose(a) \/ AgentStep(a)
         \/ AgentRecvClosed(a) \/ AgentSendClosed(a) \/ AgentSendAbort(a)
  \/ \E a \in Agents : \E r \in AgentInputs : AgentRecv(a, r)

SpecOneDash == Init /\ [][NextOneDash]_vars

\* No connection closes other than by the dashboard's sentinel: dashboard
\* sessions follow one another, each ended by "exit", and one agent connection
\* stays open.  DashWaitPass is left out for the same reason as in NextPair.
NextClean ==
  \/ \E d \in Dashes : DashAccept(d) \/ DashStep(d)
  \/ \E d \in Dashes : \E p \in DashInputs(d) :
       MayReceive(p, MaxReq) /\ DashRecv(d, p)
  \/ AgentAccept(1)
  \/ AgentStep(1)
  \/ \E r \in PairAgentInputs : AgentRecv(1, r)

SpecClean == Init /\ [][NextClean]_vars

PairWaitSuspends ==
  \A d \in Dashes : dpc[d] = "L34" => ~WaitReturnsAtOnce(event2)

TypeOK ==
  /\ message \in Payloads \cup {InitialMessage}
  /\ event \in BOOLEAN
  /\ event2 \in BOOLEAN
  /\ dpc \in [Dashes -> {"idle", "L30w", "L31", "L33", "L34", "L34w", "L34r",
                         "L36", "L37", "L37w", "L39w", "done"}]
  /\ apc \in [Agents -> {"idle", "L15", "L15w", "L15r", "L17", "L18", "L18w",
                         "L20w", "L22", "done"}]
  /\ running \in {NoOne} \cup {D(d) : d \in Dashes} \cup {A(a) : a \in Agents}
  /\ \A k \in DOMAIN cnt : cnt[k] \in 0..(MaxReq + MaxPairReq)

\* One connection per endpoint under fair scheduling: the event loop runs
\* every handler that is ready, the transports take every payload handed to
\* them (a suspended send completes), the agent connects and answers every
\* request.  The dashboard is not required to send anything.
PairFairness ==
  /\ WF_vars(AgentAccept(1))
  /\ WF_vars(AgentStep(1))
  /\ WF_vars(\E r \in PairAgentInputs : AgentRecv(1, r))
  /\ WF_vars(DashStep(1))

SpecPairFair == SpecPair /\ PairFairness

\* ------------------------------------------------------------------ claims
AgentSent == wire.ep = "agent" /\ wire.op = "send"

AgentReplied == wire.ep = "agent" /\ wire.op = "recv"

DashSent == wire.ep = "dash" /\ wire.op = "send"

DashReceived == wire.ep = "dash" /\ wire.op = "recv"

\* C1 (SpecPair): with one dashboard and one agent connection, requests,
\* deliveries to the agent, replies and relays to the dashboard alternate turn
\* for turn: the k-th delivery carries the k-th request and is made once, the
\* (k+1)-th request is received only after the k-th reply was relayed, and
\* whenever the dashboard handler is between turns (or has left on the
\* sentinel) N requests have produced exactly N deliveries and N relayed
\* replies.
C1_Alternation ==
  /\ cnt.dashSend <= cnt.agentRecv
  /\ cnt.agentRecv <= cnt.agentSend
  /\ cnt.agentSend <= cnt.dashReq
  /\ cnt.dashReq <= cnt.dashSend + 1
  /\ AgentSent => cnt.agentSend = cnt.dashReq /\ wire.val = req
  /\ dpc[1] \in {"L30w", "L39w", "done"} =>
       /\ cnt.agentSend = cnt.dashReq
       /\ cnt.agentRecv = cnt.dashReq
       /\ cnt.dashSend = cnt.dashReq

C1_Witness ==
  /\ dpc[1] = "L39w"
  /\ cnt = [dashReq |-> 2, agentSend |-> 2, agentRecv |-> 2, dashSend |-> 2]

\* C2 (Spec): the Turn Signal and the Reply Signal are never both set.
C2_MutualExclusion == ~(event /\ event2)

\* C3 (Spec): the payload sent to an agent is the request last received from a
\* dashboard (never the sentinel), and the payload sent to a dashboard is the
\* reply last received from an agent.
C3_Fidelity ==
  /\ AgentSent => wire.val = req /\ req # Sentinel
  /\ DashSent => wire.val = rep

\* C4 (SpecPairFair): a Turn Signal set while no agent is connected is not
\* lost.  As long as no agent has connected, the signal stays set, the Reply
\* Signal stays clear and the dashboard handler stays suspended at line 34 on
\* its open connection, having sent nothing; no agent handler is ever suspended
\* on a set Turn Signal; and once the agent connects, the pending request is
\* delivered to it before any other request is received, and the agent's reply
\* is relayed to the dashboard.
NoAgentYet == apc[1] = "idle"

BlockedWithoutAgent == NoAgentYet /\ dpc[1] = "L34w"

C4_Starvation ==
  /\ [](NoAgentYet /\ cnt.dashReq > 0 /\ running = NoOne =>
         /\ event /\ ~event2
         /\ dpc[1] = "L34w" /\ dOpen[1]
         /\ cnt.dashSend = 0)
  /\ [](apc[1] = "L15w" => ~event)
  /\ \A p \in PairDashInputs :
       (BlockedWithoutAgent /\ req = p) ~>
         (AgentSent /\ wire.val = p /\ cnt.dashReq = 1 /\ cnt.agentSend = 1)
  /\ BlockedWithoutAgent ~>
       (DashSent /\ wire.val = rep /\ cnt.dashSend = 1 /\ cnt.agentRecv = 1)

\* the agent has just connected and reaches its first wait with the Turn Signal
\* already set by the suspended dashboard handler
C4_Witness ==
  /\ apc[1] = "L15" /\ running = A(1) /\ cnt.agentSend = 0
  /\ event /\ dpc[1] = "L34w"

\* C5 (Spec): the step that follows the receipt of the sentinel ends the
\* handler without a send and without a set of the Turn Signal, and no agent
\* is ever sent the sentinel.
C5_Termination ==
  /\ \A d \in Dashes :
       dOps[d] = "exit" =>
         \/ dpc[d] = "L31" /\ running = D(d) /\ message = Sentinel
         \/ dpc[d] = "done" /\ ~dOpen[d]
  /\ AgentSent => wire.val # Sentinel

\* C6 (Spec): the first payload of a dashboard session, unless the sentinel, is
\* the payload of the next send to an agent.
C6_Priming == [][first # NoPayload /\ AgentSent' => wire'.val = first]_vars

\* C7 (SpecPairFair): every request received from the dashboard is eventually
\* sent to the agent, every reply received from the agent is eventually sent
\* to the dashboard, and when the k-th request is received the replies to the
\* k-1 earlier ones have been sent.
C7_Progress ==
  /\ \A k \in 1..MaxPairReq : \A p \in PairDashInputs \ {Sentinel} :
       (DashReceived /\ cnt.dashReq = k /\ req = p) ~>
         (AgentSent /\ cnt.agentSend = k /\ wire.val = p)
  /\ \A k \in 1..MaxPairReq : \A r \in PairAgentInputs :
       (AgentReplied /\ cnt.agentRecv = k /\ rep = r) ~>
         (DashSent /\ cnt.dashSend = k /\ wire.val = r)
  /\ [](DashReceived =>
         cnt.dashSend = IF req = Sentinel THEN cnt.dashReq ELSE cnt.dashReq - 1)

C7_Witness ==
  /\ DashSent /\ cnt.dashSend = 2 /\ cnt.dashReq = 2 /\ wire.val = rep

\* C8 (Spec): no step writes the mailbox while either signal is set.
C8_MailboxStable ==
  [][(event \/ event2) => ~(DashReceived' \/ AgentReplied')]_vars

\* C9 (Spec): no dashboard handler is receiving into the mailbox (lines 30 and
\* 39, connection open) while an agent handler is between its clear of the
\* Turn Signal and its set of the Reply Signal (lines 17 to 22).
C9_SingleWriter ==
  ~(\E d \in Dashes, a \in Agents :
      /\ dpc[d] \in {"L30w", "L39w"} /\ dOpen[d]
      /\ apc[a] \in {"L18", "L18w", "L20w", "L22"})

\* C10 (Spec): on every agent connection the transport operations alternate
\* send, recv, send, ... from a send; on every dashboard connection they
\* alternate recv, send, recv, ... from a recv, and a recv of the sentinel is
\* the last operation of its connection.
C10_WireProtocol ==
  [][/\ \A a \in Agents :
          /\ AgentSent' /\ wire'.id = a => aOps[a] \in {"none", "recv"}
          /\ AgentReplied' /\ wire'.id = a => aOps[a] = "send"
     /\ \A d \in Dashes :
          /\ DashReceived' /\ wire'.id = d => dOps[d] \in {"none", "send"}
          /\ DashSent' /\ wire'.id = d => dOps[d] = "recv"
          /\ dOps[d] = "exit" => dOps'[d] = "exit"]_vars

\* a dashboard connection that had a full turn and then sent the sentinel
C10_Witness ==
  /\ dOps[1] = "exit" /\ dpc[1] = "done"
  /\ cnt.dashSend = 1 /\ aOps[1] = "recv"

\* C11 (Spec): once the connection of an agent handler has closed, that
\* handler neither clears the Turn Signal (line 17) nor sets the Reply Signal
\* (line 22) nor writes the mailbox (line 20); and the closing of an agent
\* connection leaves every dashboard handler and dashboard connection as it
\* was.
AgentClosed(a) == apc[a] # "idle" /\ ~aOpen[a]

C11_AgentClosure ==
  [][\A a \in Agents :
       /\ AgentClosed(a) =>
            /\ ~(apc[a] = "L17" /\ apc'[a] = "L18")
            /\ ~(apc[a] = "L22" /\ apc'[a] = "L15")
            /\ ~(AgentReplied' /\ wire'.id = a)
       /\ aOpen[a] /\ ~aOpen'[a] => dpc' = dpc /\ dOpen' = dOpen]_vars


\* C12 (Spec): the end of a dashboard session leaves the core untouched.  The
\* step in which a dashboard connection closes, and the step in which a
\* dashboardHandler ends (the loop condition false at line 31, or recv at
\* lines 30/39 or send at line 37 raising on a closed connection), change
\* neither the mailbox nor the Turn Signal nor the Reply Signal; a handler
\* that ends on the sentinel leaves the sentinel, the last value written, in
\* the mailbox.
DashEnds(d) ==
  \/ dOpen[d] /\ ~dOpen'[d]
  \/ dpc[d] # "done" /\ dpc'[d] = "done"

C12_EndFrame ==
  [][\A d \in Dashes :
       DashEnds(d) =>
         /\ message' = message /\ event' = event /\ event2' = event2
         /\ dOps[d] = "exit" => message' = Sentinel]_vars

\* dashboard 1 had a turn and ended on a closed connection, dashboard 2 ended
\* on the sentinel
C12_Witness ==
  /\ dpc[1] = "done" /\ dOps[1] = "send"
  /\ dpc[2] = "done" /\ dOps[2] = "exit" /\ message = Sentinel


\* C13 (Spec): the operations on the two signals occur in the cyclic order
\* setTurn (line 33), clearTurn (line 17), setReply (line 22), clearReply
\* (line 36), starting with setTurn, and no signal is set while it is set.
SetsTurn == \E d \in Dashes : dpc[d] = "L33" /\ dpc'[d] = "L34"

ClearsTurn == \E a \in Agents : apc[a] = "L17" /\ apc'[a] = "L18"

SetsReply == \E a \in Agents : apc[a] = "L22" /\ apc'[a] = "L15"

ClearsReply == \E d \in Dashes : dpc[d] = "L36" /\ dpc'[d] = "L37"

C13_SignalOrder ==
  [][/\ SetsTurn => sig \in {"none", "clearReply"} /\ ~event
     /\ ClearsTurn => sig = "setTurn"
     /\ SetsReply => sig = "clearTurn" /\ ~event2
     /\ ClearsReply => sig = "setReply"]_vars


\* C14 (SpecOneDash): with a single dashboard session there is no recovery
\* from an agent connection that closes in mid-turn, that is after its
\* handler has cleared the Turn Signal and called send (lines 17-18, the send
\* complete or still suspended) and before it has received the reply and set
\* the Reply Signal (lines 20-22).
\* From then on, whatever happens (new agents connecting included), the
\* dashboard handler stays suspended at line 34, both signals stay clear, no
\* reply is received, nothing is sent to either peer, and every agent handler
\* on an open connection blocks at line 15.
ClosedMidTurn ==
  \E a \in Agents : apc[a] \in {"L18w", "L20w"} /\ ~aOpen[a]

StuckOnReply ==
  /\ dpc[1] = "L34w"
  /\ ~event /\ ~event2
  /\ ~AgentReplied /\ ~DashSent /\ ~AgentSent
  /\ \A a \in Agents : aOpen[a] => apc[a] \in {"L15", "L15w"}

C14_NoRecovery == [](ClosedMidTurn => []StuckOnReply)

\* agent 1 closed in mid-turn and its handler has ended; agent 2 has
\* connected and is suspended at line 15
C14_Witness ==
  /\ apc[1] = "done" /\ cnt.agentSend = 1 /\ cnt.agentRecv = 0
  /\ apc[2] = "L15w" /\ aOpen[2]
  /\ dpc[1] = "L34w"


\* C15 (Spec): a request is not lost when the Turn Signal is consumed.  An
\* agent handler that has cleared the Turn Signal (line 17) sends the mailbox
\* on an open connection (line 18); and the Turn Signal is never found cleared
\* for a request that no agent was sent and that no handler is about to send.
AboutToSend(a) == apc[a] \in {"L15r", "L17", "L18"}

RequestLost ==
  /\ sig = "clearTurn" /\ ~event
  /\ cnt.agentSend < cnt.dashReq
  /\ \A a \in Agents : ~AboutToSend(a)

C15_NoLostRequest ==
  /\ \A a \in Agents : apc[a] = "L18" => aOpen[a]
  /\ ~RequestLost


\* C16 (Spec): replies do not cross sessions.  What is sent to a dashboard is
\* the reply last received from an agent, received after every request so far
\* was sent to an agent and answered (so it answers the latest request), never
\* a dashboard's own payload; and what is sent to an agent is never a payload
\* received from an agent.
C16_ReplyIsolation ==
  /\ DashSent =>
       /\ wire.val = rep
       /\ wire.val \notin DashInputs(wire.id)
       /\ cnt.agentSend = cnt.dashReq /\ cnt.agentRecv = cnt.dashReq
  /\ AgentSent => wire.val \notin AgentInputs


\* C17 (SpecPairFair): the sentinel ends the session only as a payload of the
\* dashboard.  The loop condition at line 31 is evaluated on the payload just
\* received from the dashboard, the handler has returned only if that payload
\* was the sentinel, and a reply of the agent equal to the sentinel is relayed
\* to the dashboard as any other reply, after which the handler is in its
\* send at line 37 or its recv at line 39, on its open connection.
C17_SentinelScope ==
  /\ [](dpc[1] = "L31" => message = req)
  /\ [](dpc[1] = "done" => req = Sentinel)
  /\ [](DashSent => wire.val = rep /\ dpc[1] \in {"L37w", "L39w"} /\ dOpen[1])
  /\ (AgentReplied /\ rep = Sentinel) ~> (DashSent /\ wire.val = Sentinel)

\* the agent's reply "exit" has just been relayed and the session goes on
C17_Witness ==
  /\ DashSent /\ wire.val = Sentinel /\ rep = Sentinel /\ req # Sentinel
  /\ dpc[1] = "L39w" /\ dOpen[1]


\* C18 (SpecClean): a session ended by the sentinel leaves the core quiescent.
\* When no connection has closed otherwise, the step in which a dashboard
\* handler returns on "exit" leaves both signals clear, no handler running,
\* every request served (sent to the agent, answered, and the answer relayed)
\* and the agent handler, if the agent has connected, suspended at line 15:
\* the state a first session meets, but for the mailbox, which the next
\* session overwrites at line 30 before anything reads it.  Accordingly every
\* session has the agent sent the request just received and the dashboard
\* sent the reply just received.
ExitsOnSentinel(d) == dpc[d] = "L31" /\ dpc'[d] = "done"

Quiescent ==
  /\ ~event /\ ~event2
  /\ running = NoOne
  /\ apc[1] \in {"idle", "L15w"}
  /\ cnt.agentSend = cnt.dashReq
  /\ cnt.agentRecv = cnt.dashReq
  /\ cnt.dashSend = cnt.dashReq

C18_CleanExit ==
  /\ [][\A d \in Dashes : ExitsOnSentinel(d) => Quiescent']_vars
  /\ [](AgentSent => wire.val = req /\ cnt.agentSend = cnt.dashReq)
  /\ [](DashSent => wire.val = rep /\ cnt.dashSend = cnt.dashReq)

\* the second session, after a first one that had a turn and left on "exit",
\* has had a turn and has left on "exit" as well
C18_Witness ==
  /\ dpc[1] = "done" /\ dpc[2] = "done" /\ dOps[2] = "exit"
  /\ cnt.dashSend = 2 /\ req = Sentinel
  /\ apc[1] = "L15w" /\ ~event /\ ~event2


\* C19 (Spec): the process starts with both signals clear and "global" in the
\* mailbox, and they stay so until a handler receives a payload or operates
\* on a signal.  The step that accepts a connection changes neither signal
\* nor the mailbox, and leaves the new agent handler at its wait of line 15,
\* the new dashboard handler in its recv of line 30.
CoreUntouched == sig = "none" /\ req = NoPayload /\ rep = NoPayload

AcceptsAgent(a) == apc[a] = "idle" /\ apc'[a] # "idle"

AcceptsDash(d) == dpc[d] = "idle" /\ dpc'[d] # "idle"

CoreUnchanged == message' = message /\ event' = event /\ event2' = event2

C19_InitAndAccept ==
  /\ [](CoreUntouched => message = "global" /\ ~event /\ ~event2)
  /\ [][/\ \A a \in Agents :
            AcceptsAgent(a) => CoreUnchanged /\ apc'[a] = "L15" /\ aOpen'[a]
        /\ \A d \in Dashes :
            AcceptsDash(d) => CoreUnchanged /\ dpc'[d] = "L30w" /\ dOpen'[d]]_vars

\* an agent connection has just been accepted while the request of a closed
\* session is pending and a second dashboard connection is in its first recv:
\* the Turn Signal is still set and the request still in the mailbox
C19_Witness ==
  /\ apc[1] = "L15" /\ running = A(1)
  /\ event /\ message = "p1"
  /\ dpc[2] = "L30w" /\ dOpen[2]

====
